---- MODULE Spec2Model ----
(***************************************************************************)
(* Model of google.api_core.rest_streaming.ResponseIterator: an iterator   *)
(* that scans the text fragments of an HTTP response holding a JSON array  *)
(* of objects, queues the text of every completed top-level object and     *)
(* hands the queued texts, one per __next__ call, to the message class.    *)
(*                                                                         *)
(* Text is a sequence of one-character strings.  The fields of the         *)
(* iterator keep their names without the leading underscore.               *)
(***************************************************************************)
EXTENDS Integers, Sequences, FiniteSets, TLC

\* ------------------------------------------------------------------ bounds
\* Total number of characters the response delivers over all fragments.
MaxText == 5
\* Number of fragments pulled from the response (empty fragments included).
MaxPulls == 3
\* Number of __next__ calls the caller makes.
MaxCalls == 4
\* Length of the text whose splittings are compared.
MaxSplitText == 4
\* Total length of the object bodies of a generated array text.
MaxBody == 4

\* ---------------------------------------------------------------- alphabet
\* One representative of every branch of the character dispatch of
\* _process_chunk; the backslash stands for "any other character" and is
\* also the escape character of the decoder.
Alphabet == {"[", "]", "{", "}", "\"", "\\", " "}

\* string.whitespace, restricted to the alphabet
Whitespace == {" "}

\* The message classes the caller may pass as response_message_cls, named
\* by what their from_json accepts: "Echo" accepts every text and returns a
\* message showing it, "Empty" accepts only the JSON text {}.
Classes == {"Echo", "Empty"}

VARIABLES
    ready_objs,   \* _ready_objs: texts of completed objects not yet returned
    obj,          \* _obj: text of the object being built
    level,        \* _level: nesting level
    in_string,    \* _in_string
    cls,          \* _response_message_cls
    closed,       \* _response.close() has been called
    exhausted,    \* _response_itr has raised StopIteration
    pc,           \* position of the caller / of the running __next__ call
    chunk,        \* the fragment _process_chunk is working on
    idx,          \* characters of chunk the for loop has scanned
    nPulled,      \* fragments pulled from _response_itr so far
    nChars,       \* characters pulled from _response_itr so far
    outcomes,     \* history: outcome of every finished __next__ call
    pushed,       \* history: texts appended to _ready_objs, in order
    handed,       \* history: texts handed to the decoder by _grab, in order
    frags,        \* fragment comparison: the fragments of the split stream
    splitOut,     \* fragment comparison: outcomes over the split stream
    wholeOut,     \* fragment comparison: outcomes over the whole stream
    elems         \* text comparison: the object texts the array was built of

scanner == <<ready_objs, obj, level, in_string>>
history == <<outcomes, pushed, handed>>
compare == <<frags, splitOut, wholeOut, elems>>
vars == <<ready_objs, obj, level, in_string, cls, closed, exhausted, pc,
          chunk, idx, nPulled, nChars, outcomes, pushed, handed,
          frags, splitOut, wholeOut, elems>>

\* ---------------------------------------------------------------- helpers
Texts(n) == UNION {[1..k -> Alphabet] : k \in 0..n}

Last(s) == s[Len(s)]

IsPrefix(s, t) == Len(s) =< Len(t) /\ SubSeq(t, 1, Len(s)) = s

\* The scanner's memory as one value.
State(r, o, l, s) == [ready_objs |-> r, obj |-> o, level |-> l, in_string |-> s]

InitState == State(<<>>, <<>>, 0, FALSE)

\* ------------------------------------------------------------ _process_chunk
\* Variant: the first character is never compared with the bracket.
FirstCharCheckNoFormat(lvl, c) ==
    IF lvl = 0 /\ c = <<>> THEN "index_error" ELSE "ok"

\* The check made before a fragment is scanned.
FirstCharCheck(lvl, c) ==
    IF lvl = 0
    THEN IF c = <<>> THEN "index_error"
         ELSE IF c[1] # "[" THEN "format_error"
         ELSE "ok"
    ELSE "ok"

\* Variant: a closing brace outside a string queues the text at any level.
ProcessCharAnyLevel(st, char) ==
    IF char = "{" THEN
        LET o1 == IF st.level = 1 THEN <<>> ELSE st.obj
            l1 == IF ~st.in_string THEN st.level + 1 ELSE st.level
        IN  [st EXCEPT !.obj = Append(o1, char), !.level = l1]
    ELSE IF char = "\"" THEN
        [st EXCEPT !.in_string = ~st.in_string, !.obj = Append(st.obj, char)]
    ELSE IF char = "}" THEN
        LET o1 == Append(st.obj, char)
            l1 == IF ~st.in_string THEN st.level - 1 ELSE st.level
        IN  [st EXCEPT !.obj = o1, !.level = l1,
                       !.ready_objs = IF ~st.in_string
                                      THEN Append(st.ready_objs, o1)
                                      ELSE st.ready_objs]
    ELSE IF char \in Whitespace THEN
        IF st.in_string THEN [st EXCEPT !.obj = Append(st.obj, char)] ELSE st
    ELSE IF char = "[" THEN
        [st EXCEPT !.level = st.level + 1]
    ELSE IF char = "]" THEN
        [st EXCEPT !.level = st.level - 1]
    ELSE
        [st EXCEPT !.obj = Append(st.obj, char)]

\* Variant: a quote that follows a backslash does not toggle the string flag.
ProcessCharEscapeAware(st, char) ==
    IF char = "{" THEN
        LET o1 == IF st.level = 1 THEN <<>> ELSE st.obj
            l1 == IF ~st.in_string THEN st.level + 1 ELSE st.level
        IN  [st EXCEPT !.obj = Append(o1, char), !.level = l1]
    ELSE IF char = "\"" THEN
        IF st.obj # <<>> /\ Last(st.obj) = "\\"
        THEN [st EXCEPT !.obj = Append(st.obj, char)]
        ELSE [st EXCEPT !.in_string = ~st.in_string,
                        !.obj = Append(st.obj, char)]
    ELSE IF char = "}" THEN
        LET o1 == Append(st.obj, char)
            l1 == IF ~st.in_string THEN st.level - 1 ELSE st.level
        IN  [st EXCEPT !.obj = o1, !.level = l1,
                       !.ready_objs = IF ~st.in_string /\ l1 = 1
                                      THEN Append(st.ready_objs, o1)
                                      ELSE st.ready_objs]
    ELSE IF char \in Whitespace THEN
        IF st.in_string THEN [st EXCEPT !.obj = Append(st.obj, char)] ELSE st
    ELSE IF char = "[" THEN
        [st EXCEPT !.level = st.level + 1]
    ELSE IF char = "]" THEN
        [st EXCEPT !.level = st.level - 1]
    ELSE
        [st EXCEPT !.obj = Append(st.obj, char)]

\* One iteration of the for loop of _process_chunk.
ProcessChar(st, char) ==
    IF char = "{" THEN
        LET o1 == IF st.level = 1 THEN <<>> ELSE st.obj
            l1 == IF ~st.in_string THEN st.level + 1 ELSE st.level
        IN  [st EXCEPT !.obj = Append(o1, char), !.level = l1]
    ELSE IF char = "\"" THEN
        [st EXCEPT !.in_string = ~st.in_string, !.obj = Append(st.obj, char)]
    ELSE IF char = "}" THEN
        LET o1 == Append(st.obj, char)
            l1 == IF ~st.in_string THEN st.level - 1 ELSE st.level
        IN  [st EXCEPT !.obj = o1, !.level = l1,
                       !.ready_objs = IF ~st.in_string /\ l1 = 1
                                      THEN Append(st.ready_objs, o1)
                                      ELSE st.ready_objs]
    ELSE IF char \in Whitespace THEN
        IF st.in_string THEN [st EXCEPT !.obj = Append(st.obj, char)] ELSE st
    ELSE IF char = "[" THEN
        [st EXCEPT !.level = st.level + 1]
    ELSE IF char = "]" THEN
        [st EXCEPT !.level = st.level - 1]
    ELSE
        [st EXCEPT !.obj = Append(st.obj, char)]

\* ------------------------------------------------------------------- _grab
\* json.loads('"' + text + '"'): the text is read as the content of a JSON
\* string.  A quote that is not escaped ends the string before the end of
\* the text, a backslash must be followed by an escapable character; both
\* fail.  Otherwise the result is the text with its escapes resolved.
RECURSIVE JsonLoadsQuoted(_)
JsonLoadsQuoted(t) ==
    IF t = <<>> THEN [ok |-> TRUE, text |-> <<>>]
    ELSE IF Head(t) = "\"" THEN [ok |-> FALSE, text |-> <<>>]
    ELSE IF Head(t) = "\\" THEN
        IF Len(t) >= 2 /\ t[2] \in {"\"", "\\"}
        THEN LET r == JsonLoadsQuoted(Tail(Tail(t)))
             IN  [ok |-> r.ok, text |-> <<t[2]>> \o r.text]
        ELSE [ok |-> FALSE, text |-> <<>>]
    ELSE LET r == JsonLoadsQuoted(Tail(t))
         IN  [ok |-> r.ok, text |-> <<Head(t)>> \o r.text]

\* response_message_cls.from_json
FromJson(c, t) ==
    IF c = "Echo" \/ t = <<"{", "}">>
    THEN [ok |-> TRUE, text |-> t]
    ELSE [ok |-> FALSE, text |-> <<>>]

\* The outcome of decoding one object text.
Decode(c, t) ==
    LET j == JsonLoadsQuoted(t)
        m == IF j.ok THEN FromJson(c, j.text) ELSE j
    IN  IF m.ok THEN [kind |-> "value", val |-> m.text]
        ELSE [kind |-> "decode_error", val |-> <<>>]

Raised(k) == [kind |-> k, val |-> <<>>]

\* ------------------------------------------------------------ constructor
\* __init__: nothing is scanned and nothing is pulled at construction.
Init ==
    /\ ready_objs = <<>>
    /\ obj = <<>>
    /\ level = 0
    /\ in_string = FALSE
    /\ cls \in Classes
    /\ closed = FALSE
    /\ exhausted = FALSE
    /\ pc = "idle"
    /\ chunk = <<>>
    /\ idx = 0
    /\ nPulled = 0
    /\ nChars = 0
    /\ outcomes = <<>>
    /\ pushed = <<>>
    /\ handed = <<>>
    /\ frags = <<>>
    /\ splitOut = <<>>
    /\ wholeOut = <<>>
    /\ elems = <<>>

\* ------------------------------------------------------------------ cancel
\* Variant: cancel() also drops the texts that are queued.
CancelClear ==
    /\ pc = "idle"
    /\ closed' = TRUE
    /\ ready_objs' = <<>>
    /\ UNCHANGED <<obj, level, in_string, cls, exhausted, pc, chunk, idx,
                   nPulled, nChars, history, compare>>

\* cancel(): closes the response, between two __next__ calls.
Cancel ==
    /\ pc = "idle"
    /\ closed' = TRUE
    /\ UNCHANGED <<scanner, cls, exhausted, pc, chunk, idx, nPulled, nChars,
                   history, compare>>

\* ---------------------------------------------------------------- __next__
\* The caller calls __next__.
CallNext ==
    /\ pc = "idle"
    /\ Len(outcomes) < MaxCalls
    /\ pc' = "while"
    /\ UNCHANGED <<scanner, cls, closed, exhausted, chunk, idx, nPulled, nChars,
                   history, compare>>

\* Variant: the loop reads ahead until two texts are queued.
WhileTestReadAhead ==
    /\ pc = "while"
    /\ pc' = IF Len(ready_objs) < 2 /\ ~exhausted /\ ~closed /\ nPulled < MaxPulls
             THEN "pull"
             ELSE IF ready_objs = <<>> THEN "pull" ELSE "grab"
    /\ UNCHANGED <<scanner, cls, closed, exhausted, chunk, idx, nPulled, nChars,
                   history, compare>>

\* while not self._ready_objs
WhileTest ==
    /\ pc = "while"
    /\ pc' = IF ready_objs = <<>> THEN "pull" ELSE "grab"
    /\ UNCHANGED <<scanner, cls, closed, exhausted, chunk, idx, nPulled, nChars,
                   history, compare>>

\* Variant: a stream that ends inside the array is reported as an error.
PullStopTruncated ==
    /\ pc = "pull"
    /\ exhausted' = TRUE
    /\ outcomes' = Append(outcomes,
                          Raised(IF level # 0 THEN "truncated_error" ELSE "stop"))
    /\ pc' = "idle"
    /\ UNCHANGED <<scanner, cls, closed, chunk, idx, nPulled, nChars,
                   pushed, handed, compare>>

\* next(self._response_itr) finds the response at its end: the response
\* was closed, the iterator has already stopped, or the stream ends here.
\* StopIteration leaves __next__.
PullStop ==
    /\ pc = "pull"
    /\ exhausted' = TRUE
    /\ outcomes' = Append(outcomes, Raised("stop"))
    /\ pc' = "idle"
    /\ UNCHANGED <<scanner, cls, closed, chunk, idx, nPulled, nChars,
                   pushed, handed, compare>>

\* next(self._response_itr) returns the next fragment of an open response.
PullChunk ==
    /\ pc = "pull"
    /\ ~closed /\ ~exhausted
    /\ nPulled < MaxPulls
    /\ \E c \in Texts(MaxText - nChars) :
          /\ chunk' = c
          /\ nChars' = nChars + Len(c)
    /\ idx' = 0
    /\ nPulled' = nPulled + 1
    /\ pc' = "check"
    /\ UNCHANGED <<scanner, cls, closed, exhausted, history, compare>>

\* Variant: a rejected fragment ends the iteration for good.
CheckFirstFatal ==
    /\ pc = "check"
    /\ LET r == FirstCharCheck(level, chunk)
       IN  IF r = "ok"
           THEN /\ pc' = "scan"
                /\ UNCHANGED <<chunk, outcomes, exhausted>>
           ELSE /\ pc' = "idle"
                /\ chunk' = <<>>
                /\ exhausted' = TRUE
                /\ outcomes' = Append(outcomes, Raised(r))
    /\ UNCHANGED <<scanner, cls, closed, idx, nPulled, nChars,
                   pushed, handed, compare>>

\* _process_chunk, the check before the loop.
CheckFirst ==
    /\ pc = "check"
    /\ LET r == FirstCharCheck(level, chunk)
       IN  IF r = "ok"
           THEN /\ pc' = "scan"
                /\ UNCHANGED <<chunk, outcomes>>
           ELSE /\ pc' = "idle"
                /\ chunk' = <<>>
                /\ outcomes' = Append(outcomes, Raised(r))
    /\ UNCHANGED <<scanner, cls, closed, exhausted, idx, nPulled, nChars,
                   pushed, handed, compare>>

\* _process_chunk, one iteration of the loop over the fragment.
ScanChar ==
    /\ pc = "scan"
    /\ idx < Len(chunk)
    /\ LET st == ProcessChar(State(ready_objs, obj, level, in_string),
                              chunk[idx + 1])
       IN  /\ ready_objs' = st.ready_objs
           /\ obj' = st.obj
           /\ level' = st.level
           /\ in_string' = st.in_string
           /\ pushed' = IF Len(st.ready_objs) > Len(ready_objs)
                        THEN Append(pushed, Last(st.ready_objs))
                        ELSE pushed
    /\ idx' = idx + 1
    /\ UNCHANGED <<cls, closed, exhausted, pc, chunk, nPulled, nChars,
                   outcomes, handed, compare>>

\* _process_chunk returns at the end of the fragment.
EndChunk ==
    /\ pc = "scan"
    /\ idx = Len(chunk)
    /\ chunk' = <<>>
    /\ idx' = 0
    /\ pc' = "while"
    /\ UNCHANGED <<scanner, cls, closed, exhausted, nPulled, nChars,
                   history, compare>>

\* Variant: the newest queued text is taken instead of the oldest.
GrabNewest ==
    /\ pc = "grab"
    /\ ready_objs' = SubSeq(ready_objs, 1, Len(ready_objs) - 1)
    /\ handed' = Append(handed, Last(ready_objs))
    /\ outcomes' = Append(outcomes, Decode(cls, Last(ready_objs)))
    /\ pc' = "idle"
    /\ UNCHANGED <<obj, level, in_string, cls, closed, exhausted, chunk,
                   idx, nPulled, nChars, pushed, compare>>

\* Variant: the text is decoded before it is removed, so a text that fails
\* to decode stays at the head of the queue.
GrabKeepFailed ==
    /\ pc = "grab"
    /\ LET out == Decode(cls, Head(ready_objs))
       IN  /\ ready_objs' = IF out.kind = "value" THEN Tail(ready_objs)
                                                  ELSE ready_objs
           /\ outcomes' = Append(outcomes, out)
    /\ handed' = Append(handed, Head(ready_objs))
    /\ pc' = "idle"
    /\ UNCHANGED <<obj, level, in_string, cls, closed, exhausted, chunk,
                   idx, nPulled, nChars, pushed, compare>>

\* return self._grab()
Grab ==
    /\ pc = "grab"
    /\ ready_objs' = Tail(ready_objs)
    /\ handed' = Append(handed, Head(ready_objs))
    /\ outcomes' = Append(outcomes, Decode(cls, Head(ready_objs)))
    /\ pc' = "idle"
    /\ UNCHANGED <<obj, level, in_string, cls, closed, exhausted, chunk,
                   idx, nPulled, nChars, pushed, compare>>

Next ==
    \/ Cancel
    \/ CallNext
    \/ WhileTest
    \/ PullStop
    \/ PullChunk
    \/ CheckFirst
    \/ ScanChar
    \/ EndChunk
    \/ Grab

Spec == Init /\ [][Next]_vars

\* A step of a __next__ call that is under way.
CallStep ==
    \/ WhileTest
    \/ PullStop
    \/ PullChunk
    \/ CheckFirst
    \/ ScanChar
    \/ EndChunk
    \/ Grab

\* ------------------------------------------- whole runs over given fragments
\* _process_chunk, the loop over a whole fragment.
RECURSIVE ScanChunk(_, _)
ScanChunk(st, c) ==
    IF c = <<>> THEN st ELSE ScanChunk(ProcessChar(st, Head(c)), Tail(c))

\* One __next__ call of an iterator in state st whose response still holds
\* the fragments fs: its outcome, the state and the fragments it leaves.
RECURSIVE NextCall(_, _, _)
NextCall(c, st, fs) ==
    IF st.ready_objs # <<>>
    THEN [out |-> Decode(c, Head(st.ready_objs)),
          st  |-> [st EXCEPT !.ready_objs = Tail(st.ready_objs)],
          fs  |-> fs]
    ELSE IF fs = <<>>
    THEN [out |-> Raised("stop"), st |-> st, fs |-> fs]
    ELSE LET r == FirstCharCheck(st.level, Head(fs))
         IN  IF r # "ok"
             THEN [out |-> Raised(r), st |-> st, fs |-> Tail(fs)]
             ELSE NextCall(c, ScanChunk(st, Head(fs)), Tail(fs))

\* The outcomes of repeated __next__ calls, up to the first call that does
\* not return a value.
RECURSIVE Outcomes(_, _, _)
Outcomes(c, st, fs) ==
    LET r == NextCall(c, st, fs)
    IN  IF r.out.kind = "value"
        THEN <<r.out>> \o Outcomes(c, r.st, r.fs)
        ELSE <<r.out>>

RECURSIVE Flatten(_)
Flatten(fs) == IF fs = <<>> THEN <<>> ELSE Head(fs) \o Flatten(Tail(fs))

Max(S) == CHOOSE m \in S : \A x \in S : x =< m

\* The text t cut after every position of cuts.
RECURSIVE Split(_, _)
Split(t, cuts) ==
    IF cuts = {} THEN <<t>>
    ELSE LET m == Max(cuts)
         IN  Append(Split(SubSeq(t, 1, m), cuts \ {m}), SubSeq(t, m + 1, Len(t)))

\* A response is given as any splitting of any non-empty text.
InitSplit ==
    /\ ready_objs = <<>>
    /\ obj = <<>>
    /\ level = 0
    /\ in_string = FALSE
    /\ cls \in Classes
    /\ closed = FALSE
    /\ exhausted = FALSE
    /\ pc = "idle"
    /\ chunk = <<>>
    /\ idx = 0
    /\ nPulled = 0
    /\ nChars = 0
    /\ outcomes = <<>>
    /\ pushed = <<>>
    /\ handed = <<>>
    /\ \E t \in Texts(MaxSplitText) \ {<<>>} :
          \E cuts \in SUBSET (1..(Len(t) - 1)) : frags = Split(t, cuts)
    /\ splitOut = <<>>
    /\ wholeOut = <<>>
    /\ elems = <<>>

\* A fresh iterator is run over the fragments as given.
RunSplit ==
    /\ splitOut = <<>>
    /\ splitOut' = Outcomes(cls, InitState, frags)
    /\ UNCHANGED <<scanner, cls, closed, exhausted, pc, chunk, idx, nPulled,
                   nChars, history, frags, wholeOut, elems>>

\* A fresh iterator is run over the same text in one fragment.
RunWhole ==
    /\ wholeOut = <<>>
    /\ wholeOut' = Outcomes(cls, InitState, <<Flatten(frags)>>)
    /\ UNCHANGED <<scanner, cls, closed, exhausted, pc, chunk, idx, nPulled,
                   nChars, history, frags, splitOut, elems>>

NextSplit ==
    \/ RunSplit
    \/ RunWhole

SpecSplit == InitSplit /\ [][NextSplit]_vars

\* ------------------------------------------------- arrays of objects as input
\* t, the text after an opening brace, closes that brace with its last
\* character: braces and brackets outside strings are properly nested
\* (stack holds the open ones, innermost first) and every string is closed.
RECURSIVE WellNested(_, _, _)
WellNested(t, stack, inStr) ==
    IF t = <<>> THEN stack = <<>> /\ ~inStr
    ELSE IF stack = <<>> THEN FALSE
    ELSE IF Head(t) = "\"" THEN WellNested(Tail(t), stack, ~inStr)
    ELSE IF inStr THEN WellNested(Tail(t), stack, inStr)
    ELSE IF Head(t) \in {"{", "["}
         THEN WellNested(Tail(t), <<Head(t)>> \o stack, FALSE)
    ELSE IF Head(t) = "}"
         THEN Head(stack) = "{" /\ WellNested(Tail(t), Tail(stack), FALSE)
    ELSE IF Head(t) = "]"
         THEN Head(stack) = "[" /\ WellNested(Tail(t), Tail(stack), FALSE)
    ELSE WellNested(Tail(t), stack, FALSE)

\* No quote of t follows a backslash, so every quote opens or closes a
\* string literal.
NoEscapedQuote(t) ==
    \A i \in 1..(Len(t) - 1) : ~(t[i] = "\\" /\ t[i + 1] = "\"")

\* The texts of one object with a body of at most n characters.
Objects(n) ==
    {<<"{">> \o b \o <<"}">> : b \in {x \in Texts(n) :
        NoEscapedQuote(x) /\ WellNested(x \o <<"}">>, <<"{">>, FALSE)}}

\* What stands between two elements of the array; the backslash stands for
\* the comma.
Separators == {<<>>, <<" ">>, <<"\\">>}

\* The text of an array of the objects es.
RECURSIVE Joined(_, _)
Joined(es, sep) ==
    IF es = <<>> THEN <<>>
    ELSE IF Len(es) = 1 THEN es[1]
    ELSE es[1] \o sep \o Joined(Tail(es), sep)

ArrayText(es, sep) == <<"[">> \o Joined(es, sep) \o <<"]">>

\* The response is one fragment holding an array of one or two objects.
InitText ==
    /\ ready_objs = <<>>
    /\ obj = <<>>
    /\ level = 0
    /\ in_string = FALSE
    /\ cls \in Classes
    /\ closed = FALSE
    /\ exhausted = FALSE
    /\ pc = "idle"
    /\ chunk = <<>>
    /\ idx = 0
    /\ nPulled = 0
    /\ nChars = 0
    /\ outcomes = <<>>
    /\ pushed = <<>>
    /\ handed = <<>>
    /\ splitOut = <<>>
    /\ wholeOut = <<>>
    /\ \/ elems \in {<<o>> : o \in Objects(MaxBody)}
       \/ \E n \in 0..MaxBody :
             elems \in {<<o1, o2>> : o1 \in Objects(n), o2 \in Objects(MaxBody - n)}
    /\ \E sep \in Separators : frags = <<ArrayText(elems, sep)>>

\* A fresh iterator scans the fragment.
ScanText ==
    /\ pc = "idle"
    /\ FirstCharCheck(level, frags[1]) = "ok"
    /\ LET st == ScanChunk(State(ready_objs, obj, level, in_string), frags[1])
       IN  /\ ready_objs' = st.ready_objs
           /\ obj' = st.obj
           /\ level' = st.level
           /\ in_string' = st.in_string
           /\ pushed' = st.ready_objs
    /\ nPulled' = 1
    /\ nChars' = Len(frags[1])
    /\ pc' = "scanned"
    /\ UNCHANGED <<cls, closed, exhausted, chunk, idx, outcomes, handed,
                   compare>>

NextText == ScanText

SpecText == InitText /\ [][NextText]_vars

\* ------------------------------------------------------------------ claims

\* C1: for every text and every splitting of it into fragments, repeated
\* next() calls give the same outcomes (values in order, then end of
\* sequence or an error) as over the text in one fragment.
C1_FragmentIndependence ==
    (splitOut # <<>> /\ wholeOut # <<>>) => splitOut = wholeOut

\* The step ends a __next__ call.
Returns == pc # "idle" /\ pc' = "idle"

\* The character the next iteration of the for loop scans.
Cur == chunk[idx + 1]

Scanning == pc = "scan" /\ idx < Len(chunk)

\* C2: the texts handed to the decoder are, in order and each once, the
\* first texts pushed onto the queue; what was pushed and not yet handed
\* over is exactly the queue.
C2_FifoExactlyOnce ==
    /\ IsPrefix(handed, pushed)
    /\ pushed = handed \o ready_objs

\* Two different texts were pushed and both were handed over.
C2_Witness ==
    /\ Len(handed) = 2
    /\ handed[1] # handed[2]
    /\ ready_objs = <<>>

\* C3: once cancel() has been called, every next() call that ends, ends
\* with end-of-sequence (no value, no error).
C3_CancelTerminal ==
    [][(closed /\ Returns) => Last(outcomes').kind = "stop"]_vars

\* C4: inside a string, a brace, a bracket or a whitespace character leaves
\* the level alone and is appended to the object text.
C4_StringOpacity ==
    [][(Scanning /\ in_string /\ Cur \in {"{", "}", "[", "]", " "})
          => (level' = level /\ obj' = Append(obj, Cur))]_vars

\* C5: once a next() call has raised the format error, no later next()
\* call returns a value.
C5_FormatErrorFatal ==
    [][((\E i \in 1..Len(outcomes) : outcomes[i].kind = "format_error")
           /\ Returns)
          => Last(outcomes').kind # "value"]_vars

\* C6: when the first fragment pulled has a first character other than the
\* opening bracket, the check ends the first next() call with the format
\* error, no value has been returned, and the level, the string flag, the
\* object text and the queue are as they were.
C6_FirstFragmentRejected ==
    [][(pc = "check" /\ nPulled = 1 /\ chunk # <<>> /\ chunk[1] # "[")
          => /\ pc' = "idle"
             /\ outcomes = <<>>
             /\ outcomes' = <<Raised("format_error")>>
             /\ idx = 0
             /\ UNCHANGED scanner]_vars

\* A first fragment of several characters was rejected with nothing scanned.
C6_Witness ==
    /\ pc = "idle"
    /\ nPulled = 1
    /\ nChars >= 2
    /\ outcomes = <<Raised("format_error")>>
    /\ State(ready_objs, obj, level, in_string) = InitState

\* C7: a fragment of length zero raises no error and changes nothing of the
\* scanner, at every level.
C7_EmptyFragmentNoOp ==
    [][(pc = "check" /\ chunk = <<>>)
          => (pc' = "scan" /\ UNCHANGED <<scanner, outcomes>>)]_vars

\* C8: the queue grows only in the step that scans a closing brace outside
\* a string at level 2, which takes the level to 1, and then by one entry.
C8_NoPrematureEmission ==
    [][(ready_objs' # ready_objs /\ Len(ready_objs') >= Len(ready_objs))
          => /\ Scanning
             /\ Cur = "}"
             /\ ~in_string
             /\ level = 2
             /\ level' = 1
             /\ ready_objs' = Append(ready_objs, obj')]_vars

\* The fragment being scanned is the closing brace alone, and the text it
\* completed was opened by an earlier fragment.
C8_Witness ==
    /\ pc = "scan"
    /\ chunk = <<"}">>
    /\ idx = 1
    /\ nPulled >= 2
    /\ ready_objs = <<<<"{", "{", "}", "}">>>>

C10_ExhaustedEndsQuietly ==
    [][exhausted'
          => /\ ready_objs' = <<>>
             /\ Returns => (Last(outcomes').kind = "stop" /\ UNCHANGED scanner)
       ]_vars

\* The stream stopped inside an open object and two calls in a row ended
\* with end-of-sequence.
C10_Witness ==
    /\ exhausted
    /\ ~closed
    /\ level >= 2
    /\ Len(outcomes) >= 2
    /\ outcomes[Len(outcomes) - 1].kind = "stop"
    /\ Last(outcomes).kind = "stop"

\* C11: a fragment is pulled only inside a next() call and only while the
\* queue is empty: a call that finds the queue non-empty pulls nothing, and
\* a call stops pulling once a scanned fragment has left a text queued.
C11_PullOnDemand ==
    [][(nPulled' # nPulled \/ exhausted' # exhausted)
          => (pc = "pull" /\ ready_objs = <<>>)]_vars

\* One fragment queued two texts; two calls returned them and no second
\* fragment was pulled.
C11_Witness ==
    /\ pc = "idle"
    /\ nPulled = 1
    /\ Len(outcomes) = 2
    /\ Len(handed) = 2
    /\ ~exhausted

\* C12: once the stream's fragments have been accepted from the first one
\* on, no later fragment raises the format error, whatever its first
\* character and whatever the level when it arrives.
C12_FormatCheckFirstOnly ==
    [][(pc = "check" /\ nPulled >= 2
          /\ \A i \in 1..Len(outcomes) :
                outcomes[i].kind \notin {"format_error", "index_error"})
          => ~(pc' = "idle" /\ Last(outcomes').kind = "format_error")]_vars

\* The number of opening braces less the number of closing braces of t that
\* lie outside string literals; inStr tells whether t starts inside one.
RECURSIVE BraceBalance(_, _)
BraceBalance(t, inStr) ==
    IF t = <<>> THEN 0
    ELSE IF Head(t) = "\"" THEN BraceBalance(Tail(t), ~inStr)
    ELSE (IF inStr THEN 0
          ELSE IF Head(t) = "{" THEN 1
          ELSE IF Head(t) = "}" THEN -1
          ELSE 0) + BraceBalance(Tail(t), inStr)

Balanced(t) ==
    /\ t # <<>>
    /\ Head(t) = "{"
    /\ Last(t) = "}"
    /\ BraceBalance(t, FALSE) = 0

\* C13: every text pushed onto the queue begins with an opening brace, ends
\* with a closing brace and has as many opening as closing braces outside
\* string literals.
C13_PushedBalanced ==
    \A i \in 1..Len(pushed) : Balanced(pushed[i])

\* C15: the level is never negative.
C15_LevelNonNegative == level >= 0

\* t without the whitespace and the brackets that lie outside its string
\* literals.
RECURSIVE Stripped(_, _)
Stripped(t, inStr) ==
    IF t = <<>> THEN <<>>
    ELSE IF Head(t) = "\"" THEN <<Head(t)>> \o Stripped(Tail(t), ~inStr)
    ELSE IF ~inStr /\ Head(t) \in {" ", "[", "]"} THEN Stripped(Tail(t), inStr)
    ELSE <<Head(t)>> \o Stripped(Tail(t), inStr)

\* C14: for an array of objects, the texts emitted are, in order, the texts
\* of its objects without the whitespace and the brackets of nested arrays
\* outside string literals, and nothing of the outer array is in them.
C14_EmittedText ==
    pc = "scanned"
       => pushed = [i \in 1..Len(elems) |-> Stripped(elems[i], FALSE)]

\* What one pulled fragment can cost a call in steps, at most.
FragmentCost == MaxText + 4

\* A bound on the number of steps the running __next__ call still takes:
\* the fragments the response can still deliver, the characters of the
\* current fragment still to scan and the position in the call.
Rank ==
    LET B == (MaxPulls - nPulled) * FragmentCost
    IN  CASE pc = "idle"  -> 0
          [] pc = "grab"  -> 1
          [] pc = "pull"  -> B + 2
          [] pc = "while" -> B + 3
          [] pc = "scan"  -> B + (Len(chunk) - idx) + 4
          [] pc = "check" -> B + Len(chunk) + 5

\* C16: every next() call ends when the response is finite: a call under
\* way can always take a step and every step of it lowers Rank, which is
\* never negative; and end-of-sequence is never signalled while a text is
\* queued: a call that finds a text queued returns with that text handed
\* over.
C16_CallsEndAndDeliver ==
    /\ [](Rank >= 0)
    /\ [](pc # "idle" => ENABLED CallStep)
    /\ [][pc # "idle" => Rank' < Rank]_vars
    /\ [][(Returns /\ Last(outcomes').kind = "stop") => ready_objs = <<>>]_vars
    /\ [][(pc = "while" /\ ready_objs # <<>>) => pc' = "grab"]_vars
    /\ [][pc = "grab" => (pc' = "idle" /\ Len(handed') = Len(handed) + 1)]_vars

\* A call pulled every fragment the response had, two texts were queued by
\* the last one, and both were returned before end-of-sequence.
C16_Witness ==
    /\ pc = "idle"
    /\ nPulled = MaxPulls
    /\ Len(outcomes) = 3
    /\ outcomes[1].kind = "value"
    /\ outcomes[2].kind = "value"
    /\ outcomes[3].kind = "stop"
    /\ handed = pushed

\* The character scanned last was a quote that follows a backslash in the
\* fragment, and it took the scanner out of a string.
AfterEscapedQuote ==
    /\ idx >= 2
    /\ chunk[idx] = "\""
    /\ chunk[idx - 1] = "\\"
    /\ ~in_string

\* C17: every quote toggles the string flag and is appended, also a quote
\* that follows a backslash; a brace or a whitespace character that follows
\* such a quote, once it has ended the string, is handled as outside a string.
C17_QuoteAlwaysToggles ==
    /\ [][(Scanning /\ Cur = "\"")
             => /\ in_string' = ~in_string
                /\ obj' = Append(obj, Cur)
                /\ level' = level]_vars
    /\ [][(Scanning /\ AfterEscapedQuote)
             => /\ Cur = "{" => level' = level + 1
                /\ Cur = "}" => level' = level - 1
                /\ Cur = " " => obj' = obj]_vars

\* In the fragment [ " \ " } the quote after the backslash ended the string,
\* and the closing brace after it lowered the level.
C17_Witness ==
    /\ pc = "scan"
    /\ chunk = <<"[", "\"", "\\", "\"", "}">>
    /\ idx = 5
    /\ ~in_string
    /\ level = 0

\* C18: cancel() closes the response and changes nothing else: the level,
\* the string flag, the object text and the queue stay as they are.
C18_CancelFrame ==
    [][(pc = "idle" /\ pc' = "idle" /\ closed')
          => UNCHANGED <<ready_objs, obj, level, in_string, exhausted>>]_vars

\* The response was closed while a text was queued and the text is still
\* queued.
C18_Witness ==
    /\ closed
    /\ pc = "idle"
    /\ ready_objs # <<>>
    /\ level >= 1

====
